---- MODULE Spec2Model ----
(***************************************************************************)
(* Model of botw-utils: the stock-file hash table (src/src/hashes.rs) and  *)
(* the canonical resource path functions (src/src/lib.rs).                 *)
(*                                                                         *)
(* Byte strings are sequences of integers 0..255.  Paths handled by the    *)
(* canonicalizer are sequences of one-character strings.  A u32 is the     *)
(* pair <<hi, lo>> of its two 16-bit halves, so that 32-bit wrapping       *)
(* arithmetic stays inside the range of the model checker's integers.      *)
(***************************************************************************)
EXTENDS Integers, Sequences, FiniteSets, TLC

(***************************************************************************)
(* Bounds of the model.                                                    *)
(***************************************************************************)
\* longest raw byte string enumerated over ByteAlphabet
MaxDataLen == 4
\* number of threads sharing one StockHashTable
NumCallers == 2
\* number of path fragments concatenated into a raw path
MaxFrags == 3

(***************************************************************************)
(* u32 arithmetic (wrapping), on pairs <<hi, lo>>.                         *)
(***************************************************************************)
W16 == 65536

RECURSIVE Xor16(_, _, _)
\* bitwise exclusive or of the low n bits of a and b
Xor16(a, b, n) ==
    IF n = 0 THEN 0
    ELSE (((a % 2) + (b % 2)) % 2) + 2 * Xor16(a \div 2, b \div 2, n - 1)

Xor32(x, y) == << Xor16(x[1], y[1], 16), Xor16(x[2], y[2], 16) >>

Add32(x, y) ==
    LET lo == x[2] + y[2]
        hi == x[1] + y[1] + (lo \div W16)
    IN  << hi % W16, lo % W16 >>

\* x + n for a small natural n (the input length)
AddNat32(x, n) == Add32(x, << (n \div W16) % W16, n % W16 >>)

\* low 16 bits of the product of two 16-bit numbers
MulLo16(a, b) ==
    (a * (b % 256) + ((a * (b \div 256)) % 256) * 256) % W16

\* bits 16..31 of the product of two 16-bit numbers
MulHi16(a, b) ==
    LET p0 == a * (b % 256)
        p1 == a * (b \div 256)
    IN  ((p0 + (p1 % 256) * 256) \div W16 + (p1 \div 256)) % W16

\* wrapping_mul
Mul32(x, y) ==
    << (MulHi16(x[2], y[2]) + MulLo16(x[2], y[1]) + MulLo16(x[1], y[2])) % W16,
       MulLo16(x[2], y[2]) >>

\* rotate_left
RECURSIVE Rotl32(_, _)
Rotl32(x, r) ==
    IF r = 0 THEN x
    ELSE IF r >= 16 THEN Rotl32(<< x[2], x[1] >>, r - 16)
    ELSE << ((x[1] * 2^r) % W16) + (x[2] \div 2^(16 - r)),
            ((x[2] * 2^r) % W16) + (x[1] \div 2^(16 - r)) >>

\* logical shift right, 0 < r <= 16
Shr32(x, r) ==
    IF r = 16 THEN << 0, x[1] >>
    ELSE << x[1] \div 2^r, (x[2] \div 2^r) + (x[1] % 2^r) * 2^(16 - r) >>

\* u32::from_le_bytes of the four bytes of d starting at index i
ReadU32LE(d, i) == << d[i + 3] * 256 + d[i + 2], d[i + 1] * 256 + d[i] >>

(***************************************************************************)
(* twox_hash::XxHash32 (the XXH32 algorithm), as used with seed 0.         *)
(***************************************************************************)
PRIME32_1 == << 40503, 31153 >>   \* 2654435761
PRIME32_2 == << 34283, 51831 >>   \* 2246822519
PRIME32_3 == << 49842, 44605 >>   \* 3266489917
PRIME32_4 == << 10196, 60207 >>   \* 668265263
PRIME32_5 == << 5718, 26545 >>    \* 374761393

XxRound(acc, input) ==
    Mul32(Rotl32(Add32(acc, Mul32(input, PRIME32_2)), 13), PRIME32_1)

RECURSIVE XxStripes(_, _, _)
\* consume the 16-byte stripes of d from index i; v is the 4 accumulators
XxStripes(d, i, v) ==
    IF i + 15 > Len(d) THEN << i, v >>
    ELSE XxStripes(d, i + 16,
                   << XxRound(v[1], ReadU32LE(d, i)),
                      XxRound(v[2], ReadU32LE(d, i + 4)),
                      XxRound(v[3], ReadU32LE(d, i + 8)),
                      XxRound(v[4], ReadU32LE(d, i + 12)) >>)

RECURSIVE XxTail(_, _, _)
\* consume the remaining words, then the remaining bytes
XxTail(d, i, h) ==
    IF i + 3 <= Len(d)
    THEN XxTail(d, i + 4,
                Mul32(Rotl32(Add32(h, Mul32(ReadU32LE(d, i), PRIME32_3)), 17),
                      PRIME32_4))
    ELSE IF i <= Len(d)
    THEN XxTail(d, i + 1,
                Mul32(Rotl32(Add32(h, Mul32(<< 0, d[i] >>, PRIME32_5)), 11),
                      PRIME32_1))
    ELSE h

XxAvalanche(h0) ==
    LET h1 == Mul32(Xor32(h0, Shr32(h0, 15)), PRIME32_2)
        h2 == Mul32(Xor32(h1, Shr32(h1, 13)), PRIME32_3)
    IN  Xor32(h2, Shr32(h2, 16))

\* XxHash32::with_seed(seed); write(d); finish() as u32
XxHash32(seed, d) ==
    LET neg1 == Add32(Xor32(PRIME32_1, << W16 - 1, W16 - 1 >>), << 0, 1 >>)
        st   == XxStripes(d, 1, << Add32(Add32(seed, PRIME32_1), PRIME32_2),
                                   Add32(seed, PRIME32_2),
                                   seed,
                                   Add32(seed, neg1) >>)
        v    == st[2]
        h0   == IF Len(d) >= 16
                THEN Add32(Add32(Rotl32(v[1], 1), Rotl32(v[2], 7)),
                           Add32(Rotl32(v[3], 12), Rotl32(v[4], 18)))
                ELSE Add32(seed, PRIME32_5)
    IN  XxAvalanche(XxTail(d, st[1], AddNat32(h0, Len(d))))

(***************************************************************************)
(* yaz0::Yaz0Archive: the container that is_file_modded unwraps.  A result *)
(* is [ok |-> TRUE, val |-> bytes] or [ok |-> FALSE]; a failure stands for *)
(* every way the crate does not produce a payload (an Err of new or of     *)
(* decompress, or an index out of range inside the decoder).               *)
(***************************************************************************)
Yaz0Magic == << 89, 97, 122, 48 >>   \* b"Yaz0"

Yaz0Fail == [ok |-> FALSE]

Yaz0Ok(bytes) == [ok |-> TRUE, val |-> bytes]

RECURSIVE Yaz0Copy(_, _, _)
\* append n bytes to dest, each read from dest at index base + k
Yaz0Copy(dest, base, n) ==
    IF n = 0 THEN dest
    ELSE Yaz0Copy(Append(dest, dest[base]), base + 1, n - 1)

RECURSIVE Yaz0Loop(_, _, _, _, _, _)
\* src: next index to read in data; code: current code byte; ops: bits left
Yaz0Loop(data, src, dest, size, code, ops) ==
    IF Len(dest) >= size THEN Yaz0Ok(dest)
    ELSE IF ops = 0
    THEN IF src > Len(data) THEN Yaz0Fail
         ELSE Yaz0Loop(data, src + 1, dest, size, data[src], 8)
    ELSE IF code >= 128
    THEN IF src > Len(data) THEN Yaz0Fail
         ELSE Yaz0Loop(data, src + 1, Append(dest, data[src]), size,
                       (code * 2) % 256, ops - 1)
    ELSE IF src + 1 > Len(data) THEN Yaz0Fail
    ELSE LET byte1 == data[src]
             byte2 == data[src + 1]
             dist  == (byte1 % 16) * 256 + byte2
             long  == byte1 \div 16 = 0
             n     == IF long THEN data[src + 2] + 18 ELSE (byte1 \div 16) + 2
             next  == IF long THEN src + 3 ELSE src + 2
         IN  IF long /\ src + 2 > Len(data) THEN Yaz0Fail
             ELSE IF dist + 1 > Len(dest) \/ Len(dest) + n > size
             THEN Yaz0Fail
             ELSE Yaz0Loop(data, next,
                           Yaz0Copy(dest, Len(dest) - dist, n), size,
                           (code * 2) % 256, ops - 1)

\* Yaz0Archive::new(Cursor::new(data)) followed by decompress()
Yaz0Decompress(data) ==
    IF Len(data) < 16 \/ SubSeq(data, 1, 4) # Yaz0Magic THEN Yaz0Fail
    ELSE Yaz0Loop(data, 17, << >>,
                  ((data[5] * 256 + data[6]) * 256 + data[7]) * 256 + data[8],
                  0, 0)

(***************************************************************************)
(* The stock hash tables.  The two JSON documents are data of the build;   *)
(* the model's tables hold the entry the test check_val reads and entries  *)
(* whose fingerprints are those of the model's stock contents.             *)
(***************************************************************************)
Platform == { "WiiU", "Switch" }

\* stock contents of the model: an original and a re-packaged variant
StockBytesA == << 65, 66, 65, 66 >>
StockBytesB == << 65, 65, 65, 65 >>

FileModelList == "Actor/ModelList/DgnMrgPrt_Dungeon023.bmodellist"
FilePhysics == "Actor/Physics/FldObj_MountainSheikerWall_A_06.bphysics"
FileNotStock == "Actor/Pack/Mod_NewActor.bactorpack"

Seed0 == << 0, 0 >>

HASHES_U ==
    (FileModelList :> << << 35158, 57316 >>, << 15699, 60871 >> >>)
    @@ (FilePhysics :> << XxHash32(Seed0, StockBytesA) >>)

HASHES_NX ==
    (FilePhysics :> << XxHash32(Seed0, StockBytesA),
                       XxHash32(Seed0, StockBytesB) >>)

get_hash_table(p) == IF p = "WiiU" THEN HASHES_U ELSE HASHES_NX

(***************************************************************************)
(* StockHashTable methods, as functions of the table.                      *)
(***************************************************************************)
RetBool(b) == [kind |-> "bool", val |-> b]
RetList(l) == [kind |-> "list", val |-> l]
Panicked == [kind |-> "panic"]
NoResult == [kind |-> "none"]

\* Vec::contains
VecContains(v, x) == \E i \in 1 .. Len(v) : v[i] = x

\* the arm `true =>` of is_file_modded (lines 69-84)
is_file_modded_known(t, file_name, data) ==
    IF Len(data) < 4 THEN Panicked                 \* &data[0..4]
    ELSE IF SubSeq(data, 1, 4) = Yaz0Magic
    THEN LET r == Yaz0Decompress(data)
         IN  IF r.ok
             THEN RetBool(~VecContains(t[file_name], XxHash32(Seed0, r.val)))
             ELSE Panicked                          \* .unwrap()
    ELSE RetBool(~VecContains(t[file_name], XxHash32(Seed0, data)))

\* variant: the content is sliced before the table is consulted
is_file_modded_slice_first(t, file_name, data, flag_new) ==
    IF Len(data) < 4 THEN Panicked
    ELSE IF file_name \in DOMAIN t
    THEN is_file_modded_known(t, file_name, data)
    ELSE RetBool(flag_new)

is_file_modded(t, file_name, data, flag_new) ==
    IF file_name \in DOMAIN t
    THEN is_file_modded_known(t, file_name, data)
    ELSE RetBool(flag_new)

is_file_new(t, file_name) == RetBool(file_name \notin DOMAIN t)

(***************************************************************************)
(* Inputs of the queries.                                                  *)
(***************************************************************************)
ByteAlphabet == { 65, 66 }

BytesUpTo(n) == UNION { [1 .. k -> ByteAlphabet] : k \in 0 .. n }

\* b"Random data", the content used by the test is_file_modded
RandomData == << 82, 97, 110, 100, 111, 109, 32, 100, 97, 116, 97 >>

Yaz0Header(size) == Yaz0Magic \o << 0, 0, 0, size >> \o << 0, 0, 0, 0, 0, 0, 0, 0 >>

RECURSIVE Yaz0Groups(_)
\* the payload as groups of at most 8 literal bytes, each behind a code byte
Yaz0Groups(payload) ==
    IF Len(payload) = 0 THEN << >>
    ELSE IF Len(payload) <= 8 THEN << 255 >> \o payload
    ELSE << 255 >> \o SubSeq(payload, 1, 8)
         \o Yaz0Groups(SubSeq(payload, 9, Len(payload)))

\* a well-formed archive that stores the payload as literals
Yaz0Literals(payload) == Yaz0Header(Len(payload)) \o Yaz0Groups(payload)

\* a well-formed archive of StockBytesB: one literal and a back-reference
Yaz0BackRef == Yaz0Header(4) \o << 128, 65, 16, 0 >>

\* contents that carry the marker and do not decompress
Yaz0Broken ==
    { Yaz0Magic,                                  \* nothing after the marker
      Yaz0Magic \o << 0, 0, 0, 4, 0 >>,           \* header cut short
      Yaz0Header(4),                              \* no body
      Yaz0Header(4) \o << 255, 65, 66 >>,         \* body cut short
      Yaz0Header(4) \o << 0, 16, 0 >> }           \* reference before the start

DataInputs ==
    BytesUpTo(MaxDataLen) \cup { RandomData }
    \cup { Yaz0Literals(b) : b \in BytesUpTo(MaxDataLen) }
    \cup { Yaz0BackRef } \cup Yaz0Broken

SharedInputs == { << >>, RandomData, Yaz0Literals(StockBytesA) }

FileNames == { FileModelList, FilePhysics, FileNotStock }

\* the orders in which a HashMap with the keys of t may iterate
KeyOrders(t) ==
    { o \in [1 .. Cardinality(DOMAIN t) -> DOMAIN t] :
        \A i, j \in 1 .. Cardinality(DOMAIN t) : o[i] = o[j] => i = j }

(***************************************************************************)
(* Strings of the canonicalizer: sequences of one-character strings.       *)
(***************************************************************************)
\* "\\"
StrBackslash ==
    << "\\" >>

StrSlash ==
    << "/" >>

StrDotS ==
    << ".", "s" >>

StrDot ==
    << "." >>

\* "content"
StrContent ==
    << "c", "o", "n", "t", "e", "n", "t" >>

\* "content/"
StrContentSlash ==
    << "c", "o", "n", "t", "e", "n", "t", "/" >>

\* "aoc/"
StrAocSlash ==
    << "a", "o", "c", "/" >>

\* "aoc/content"
StrAocContent ==
    << "a", "o", "c", "/", "c", "o", "n", "t", "e", "n", "t" >>

\* "aoc"
StrAocLower ==
    << "a", "o", "c" >>

\* "Aoc"
StrAocUpper ==
    << "A", "o", "c" >>

\* "/aoc"
StrSlashAoc ==
    << "/", "a", "o", "c" >>

\* "aoc/0010/"
StrAoc0010Slash ==
    << "a", "o", "c", "/", "0", "0", "1", "0", "/" >>

\* "01007EF00011E000", as the closure of replace_all spells it
StrTitleE000 ==
    << "0", "1", "0", "0", "7", "E", "F", "0", "0", "0", "1", "1", "E", "0",
       "0", "0" >>

\* pieces of the pattern RE, lower-cased because RE is (?i)
ReAtmosphereTitles ==
    << "a", "t", "m", "o", "s", "p", "h", "e", "r", "e", "/", "t", "i", "t",
       "l", "e", "s", "/" >>

ReAtmosphereContents ==
    << "a", "t", "m", "o", "s", "p", "h", "e", "r", "e", "/", "c", "o", "n",
       "t", "e", "n", "t", "s", "/" >>

ReBaseTitleRomfs ==
    << "0", "1", "0", "0", "7", "e", "f", "0", "0", "0", "1", "1", "e", "0",
       "0", "0", "/", "r", "o", "m", "f", "s", "/" >>

ReTitlePrefix ==
    << "0", "1", "0", "0", "7", "e", "f", "0", "0", "0", "1", "1" >>

ReDoubleZero ==
    << "0", "0" >>

ReRomfsSlash ==
    << "/", "r", "o", "m", "f", "s", "/" >>

ReAoc0010Slash ==
    << "a", "o", "c", "/", "0", "0", "1", "0", "/" >>

UpperLetters ==
    << "A", "B", "C", "D", "E", "F", "G", "H", "I", "J", "K", "L", "M", 
       "N", "O", "P", "Q", "R", "S", "T", "U", "V", "W", "X", "Y", "Z" >>

LowerLetters ==
    << "a", "b", "c", "d", "e", "f", "g", "h", "i", "j", "k", "l", "m", 
       "n", "o", "p", "q", "r", "s", "t", "u", "v", "w", "x", "y", "z" >>

\* the lower-case letter of each upper-case ASCII letter
LowerMap ==
    [ch \in { UpperLetters[i] : i \in 1 .. 26 } |->
        LowerLetters[CHOOSE i \in 1 .. 26 : UpperLetters[i] = ch]]

\* simple case folding of one character, over the ASCII letters
Lower(ch) == IF ch \in DOMAIN LowerMap THEN LowerMap[ch] ELSE ch

\* pat occurs in s at index i
MatchAt(s, i, pat) ==
    /\ i + Len(pat) - 1 <= Len(s)
    /\ \A k \in 1 .. Len(pat) : s[i + k - 1] = pat[k]

\* the lower-case pat occurs in s at index i, letter case ignored
MatchAtCI(s, i, pat) ==
    /\ i + Len(pat) - 1 <= Len(s)
    /\ \A k \in 1 .. Len(pat) : Lower(s[i + k - 1]) = pat[k]

\* str::starts_with
starts_with(s, pat) == MatchAt(s, 1, pat)

\* str::contains
contains(s, pat) == \E i \in 1 .. Len(s) : MatchAt(s, i, pat)

RECURSIVE ReplaceFrom(_, _, _, _)
ReplaceFrom(s, i, from, to) ==
    IF i > Len(s) THEN << >>
    ELSE IF MatchAt(s, i, from)
    THEN to \o ReplaceFrom(s, i + Len(from), from, to)
    ELSE << s[i] >> \o ReplaceFrom(s, i + 1, from, to)

RECURSIVE ReplaceFirstFrom(_, _, _, _)
ReplaceFirstFrom(s, i, from, to) ==
    IF i > Len(s) THEN << >>
    ELSE IF MatchAt(s, i, from)
    THEN to \o SubSeq(s, i + Len(from), Len(s))
    ELSE << s[i] >> \o ReplaceFirstFrom(s, i + 1, from, to)

\* variant (str::replacen with count 1): only the first match of from
str_replace_first(s, from, to) == ReplaceFirstFrom(s, 1, from, to)

\* str::replace: every non-overlapping match of from, left to right
str_replace(s, from, to) == ReplaceFrom(s, 1, from, to)

(***************************************************************************)
(* The pattern RE of get_canon_name:                                       *)
(*   (?i)(((Content|(atmosphere/(titles|contents)/)?01007EF00011E000/romfs)/)|                *)
(*        ((Aoc(/0010)?|(atmosphere/(titles|contents)/)?01007EF00011[ef]00[0-2]/romfs)/))     *)
(***************************************************************************)
\* length of (atmosphere/(titles|contents)/) at index i, 0 when absent
ReLoaderLen(s, i) ==
    IF MatchAtCI(s, i, ReAtmosphereTitles) THEN Len(ReAtmosphereTitles)
    ELSE IF MatchAtCI(s, i, ReAtmosphereContents) THEN Len(ReAtmosphereContents)
    ELSE 0

\* length of 01007EF00011E000/romfs/ at index i, 0 when absent
ReBaseTitleLen(s, i) ==
    IF MatchAtCI(s, i, ReBaseTitleRomfs) THEN Len(ReBaseTitleRomfs) ELSE 0

\* length of 01007EF00011[ef]00[0-2]/romfs/ at index i, 0 when absent
ReAocTitleLen(s, i) ==
    IF /\ MatchAtCI(s, i, ReTitlePrefix)
       /\ i + 22 <= Len(s)
       /\ Lower(s[i + 12]) \in { "e", "f" }
       /\ MatchAtCI(s, i + 13, ReDoubleZero)
       /\ s[i + 15] \in { "0", "1", "2" }
       /\ MatchAtCI(s, i + 16, ReRomfsSlash)
    THEN 23 ELSE 0

\* length of the match of RE that starts at index i, 0 when there is none;
\* the alternatives are tried in the order the pattern lists them
ReMatchLen(s, i) ==
    LET pre == ReLoaderLen(s, i)
    IN  IF MatchAtCI(s, i, StrContentSlash) THEN Len(StrContentSlash)
        ELSE IF pre > 0 /\ ReBaseTitleLen(s, i + pre) > 0
        THEN pre + ReBaseTitleLen(s, i + pre)
        ELSE IF ReBaseTitleLen(s, i) > 0 THEN ReBaseTitleLen(s, i)
        ELSE IF MatchAtCI(s, i, ReAoc0010Slash) THEN Len(ReAoc0010Slash)
        ELSE IF MatchAtCI(s, i, StrAocSlash) THEN Len(StrAocSlash)
        ELSE IF pre > 0 /\ ReAocTitleLen(s, i + pre) > 0
        THEN pre + ReAocTitleLen(s, i + pre)
        ELSE ReAocTitleLen(s, i)

\* the closure given to replace_all (lines 41-47)
RootMarker(cap) ==
    IF starts_with(cap, StrContent) \/ contains(cap, StrTitleE000)
    THEN StrContentSlash
    ELSE StrAoc0010Slash

RECURSIVE ReReplaceFrom(_, _)
ReReplaceFrom(s, i) ==
    IF i > Len(s) THEN << >>
    ELSE LET n == ReMatchLen(s, i)
         IN  IF n > 0
             THEN RootMarker(SubSeq(s, i, i + n - 1)) \o ReReplaceFrom(s, i + n)
             ELSE << s[i] >> \o ReReplaceFrom(s, i + 1)

\* RE.replace_all(&normalized, closure)
re_replace_all(s) == ReReplaceFrom(s, 1)

\* RE.is_match
re_is_match(s) == \E i \in 1 .. Len(s) : ReMatchLen(s, i) > 0

(***************************************************************************)
(* The canonicalizer functions.                                            *)
(***************************************************************************)
Some(x) == [some |-> TRUE, val |-> x]
None == [some |-> FALSE]

\* lines 35-39 and 83-87: separators, then the extension marker
normalize(file_path) ==
    str_replace(str_replace(file_path, StrBackslash, StrSlash), StrDotS, StrDot)

\* variant: the base-content branch without the test for "/aoc"
classify_no_aoc_test(normalized) ==
    IF starts_with(normalized, StrAocSlash)
    THEN Some(str_replace(str_replace(normalized, StrAocContent, StrAocUpper),
                          StrAocLower, StrAocUpper))
    ELSE IF starts_with(normalized, StrContent)
    THEN Some(str_replace(normalized, StrContentSlash, << >>))
    ELSE None

\* lines 49-59
classify(normalized) ==
    IF starts_with(normalized, StrAocSlash)
    THEN Some(str_replace(str_replace(normalized, StrAocContent, StrAocUpper),
                          StrAocLower, StrAocUpper))
    ELSE IF starts_with(normalized, StrContent) /\ ~contains(normalized, StrSlashAoc)
    THEN Some(str_replace(normalized, StrContentSlash, << >>))
    ELSE None

get_canon_name(file_path) == classify(re_replace_all(normalize(file_path)))

\* variant: the extension marker is replaced once
get_canon_name_without_root_once(file_path) ==
    ReplaceFirstFrom(str_replace(file_path, StrBackslash, StrSlash), 1, StrDotS, StrDot)

get_canon_name_without_root(file_path) ==
    str_replace(str_replace(file_path, StrBackslash, StrSlash), StrDotS, StrDot)

\* raw path fragments
FragContent ==
    << "c", "o", "n", "t", "e", "n", "t", "/" >>

FragContentTitle ==
    << "C", "o", "n", "t", "e", "n", "t", "/" >>

FragContentUpper ==
    << "C", "O", "N", "T", "E", "N", "T", "/" >>

FragContentBackslash ==
    << "c", "o", "n", "t", "e", "n", "t", "\\" >>

FragAoc ==
    << "a", "o", "c", "/" >>

Frag0010 ==
    << "0", "0", "1", "0", "/" >>

FragAtmosphere ==
    << "a", "t", "m", "o", "s", "p", "h", "e", "r", "e", "/", "c", "o", "n",
       "t", "e", "n", "t", "s", "/" >>

FragBaseTitle ==
    << "0", "1", "0", "0", "7", "E", "F", "0", "0", "0", "1", "1", "E", "0",
       "0", "0", "/", "r", "o", "m", "f", "s", "/" >>

FragBaseTitleLower ==
    << "0", "1", "0", "0", "7", "e", "f", "0", "0", "0", "1", "1", "e", "0",
       "0", "0", "/", "r", "o", "m", "f", "s", "/" >>

FragAocTitle ==
    << "0", "1", "0", "0", "7", "E", "F", "0", "0", "0", "1", "1", "F", "0",
       "0", "1", "/", "r", "o", "m", "f", "s", "/" >>

FragActor ==
    << "A", "c", "t", "o", "r", "/" >>

FragDotS ==
    << "A", ".", "s" >>

FragSarc ==
    << "s", "a", "r", "c" >>

PathFragments ==
    { FragContent, FragContentTitle, FragContentUpper, FragContentBackslash,
      FragAoc, Frag0010, FragAtmosphere, FragBaseTitle, FragBaseTitleLower,
      FragAocTitle, FragDotS, FragSarc }

RECURSIVE Concat(_)
Concat(fs) == IF Len(fs) = 0 THEN << >> ELSE Head(fs) \o Concat(Tail(fs))

\* the raw paths: up to MaxFrags fragments, concatenated
RawPaths ==
    { Concat(fs) : fs \in UNION { [1 .. k -> PathFragments] : k \in 0 .. MaxFrags } }

(***************************************************************************)
(* State.                                                                  *)
(***************************************************************************)
VARIABLES
    platform,   \* the Platform the StockHashTable was constructed for
    table,      \* StockHashTable.table
    order,      \* the iteration order of table.keys()
    req,        \* per caller: the query it issued, or NoRequest
    res,        \* per caller: what the query returned, or NoResult
    raw,        \* the file_path given to a canonicalizer function
    fn,         \* which canonicalizer function was applied last
    out         \* what it returned

vars == << platform, table, order, req, res, raw, fn, out >>

Callers == 1 .. NumCallers

NoRequest == [op |-> "none"]

\* what a query returns on table t iterating in order o
Answer(t, o, q) ==
    CASE q.op = "is_file_modded" ->
             is_file_modded(t, q.file_name, q.data, q.flag_new)
      [] q.op = "is_file_new" -> is_file_new(t, q.file_name)
      [] q.op = "get_stock_files" -> RetList(o)
      [] q.op = "list_stock_files" -> RetList(o)
      [] OTHER -> NoResult

\* StockHashTable::new(platform), for either platform
InitHashes ==
    /\ platform \in Platform
    /\ table = get_hash_table(platform)
    /\ order \in KeyOrders(table)
    /\ req = [c \in Callers |-> NoRequest]
    /\ res = [c \in Callers |-> NoResult]
    /\ raw = << >>
    /\ fn = "none"
    /\ out = << >>

\* variant: a fingerprint found absent is remembered in the table
IsFileModdedRemembering(c, file_name, data, flag_new) ==
    /\ req[c] = NoRequest
    /\ req' = [req EXCEPT ![c] = [op |-> "is_file_modded", file_name |-> file_name,
                                  data |-> data, flag_new |-> flag_new]]
    /\ res' = [res EXCEPT ![c] = is_file_modded(table, file_name, data, flag_new)]
    /\ table' = IF file_name \in DOMAIN table /\ Len(data) >= 4
                    /\ SubSeq(data, 1, 4) # Yaz0Magic
                 THEN [table EXCEPT ![file_name] =
                           IF VecContains(@, XxHash32(Seed0, data)) THEN @
                           ELSE Append(@, XxHash32(Seed0, data))]
                 ELSE table
    /\ UNCHANGED << platform, order, raw, fn, out >>

IsFileModded(c, file_name, data, flag_new) ==
    /\ req[c] = NoRequest
    /\ req' = [req EXCEPT ![c] = [op |-> "is_file_modded", file_name |-> file_name,
                                  data |-> data, flag_new |-> flag_new]]
    /\ res' = [res EXCEPT ![c] = is_file_modded(table, file_name, data, flag_new)]
    /\ UNCHANGED << platform, table, order, raw, fn, out >>

IsFileNew(c, file_name) ==
    /\ req[c] = NoRequest
    /\ req' = [req EXCEPT ![c] = [op |-> "is_file_new", file_name |-> file_name]]
    /\ res' = [res EXCEPT ![c] = is_file_new(table, file_name)]
    /\ UNCHANGED << platform, table, order, raw, fn, out >>

GetStockFiles(c) ==
    /\ req[c] = NoRequest
    /\ req' = [req EXCEPT ![c] = [op |-> "get_stock_files"]]
    /\ res' = [res EXCEPT ![c] = RetList(order)]
    /\ UNCHANGED << platform, table, order, raw, fn, out >>

ListStockFiles(c) ==
    /\ req[c] = NoRequest
    /\ req' = [req EXCEPT ![c] = [op |-> "list_stock_files"]]
    /\ res' = [res EXCEPT ![c] = RetList(order)]
    /\ UNCHANGED << platform, table, order, raw, fn, out >>

\* the caller takes the result (or its thread ends) and may query again
Return(c) ==
    /\ req[c] # NoRequest
    /\ req' = [req EXCEPT ![c] = NoRequest]
    /\ res' = [res EXCEPT ![c] = NoResult]
    /\ UNCHANGED << platform, table, order, raw, fn, out >>

(***************************************************************************)
(* The canonicalizer: a caller holds a raw path and applies a function.    *)
(* out is the sequence of the results obtained so far.                     *)
(***************************************************************************)
InitCanon ==
    /\ raw \in RawPaths
    /\ fn = "none"
    /\ out = << >>
    /\ platform = "WiiU"
    /\ table = get_hash_table(platform)
    /\ order = << FileModelList, FilePhysics >>
    /\ req = [c \in Callers |-> NoRequest]
    /\ res = [c \in Callers |-> NoResult]

GetCanonName ==
    /\ fn = "none"
    /\ fn' = "get_canon_name"
    /\ out' = << get_canon_name(raw) >>
    /\ UNCHANGED << raw, platform, table, order, req, res >>

GetCanonNameWithoutRoot ==
    /\ fn = "none"
    /\ fn' = "get_canon_name_without_root"
    /\ out' = << get_canon_name_without_root(raw) >>
    /\ UNCHANGED << raw, platform, table, order, req, res >>

\* the caller passes the result of get_canon_name_without_root to it again
GetCanonNameWithoutRootAgain ==
    /\ fn = "get_canon_name_without_root"
    /\ Len(out) = 1
    /\ out' = Append(out, get_canon_name_without_root(out[1]))
    /\ UNCHANGED << raw, fn, platform, table, order, req, res >>

(***************************************************************************)
(* Specifications.                                                         *)
(***************************************************************************)
\* one caller querying a StockHashTable
NextHashes ==
    \/ \E f \in FileNames, d \in DataInputs, b \in BOOLEAN : IsFileModded(1, f, d, b)
    \/ \E f \in FileNames : IsFileNew(1, f)
    \/ GetStockFiles(1)
    \/ ListStockFiles(1)
    \/ Return(1)

SpecHashes == InitHashes /\ [][NextHashes]_vars

\* NumCallers threads sharing one StockHashTable
NextShared ==
    \/ \E c \in Callers, f \in FileNames, d \in SharedInputs, b \in BOOLEAN :
           IsFileModded(c, f, d, b)
    \/ \E c \in Callers, f \in FileNames : IsFileNew(c, f)
    \/ \E c \in Callers : GetStockFiles(c)
    \/ \E c \in Callers : ListStockFiles(c)
    \/ \E c \in Callers : Return(c)

SpecShared == InitHashes /\ [][NextShared]_vars

\* the canonicalizer applied to every raw path
NextCanon ==
    \/ GetCanonName
    \/ GetCanonNameWithoutRoot
    \/ GetCanonNameWithoutRootAgain

SpecCanon == InitCanon /\ [][NextCanon]_vars

\* the fixtures of the test canon_names and of the doc comments
Fixtures ==
    /\ get_canon_name(FragContentBackslash \o FragActor \o FragDotS \o FragSarc)
           = Some(FragActor \o << "A", ".", "s", "a", "r", "c" >>)
    /\ get_canon_name(FragAoc \o Frag0010 \o FragDotS)
           = Some(<< "A", "o", "c", "/" >> \o Frag0010 \o << "A", "." >>)
    /\ get_canon_name(FragAtmosphere \o FragBaseTitle \o FragActor) = Some(FragActor)
    /\ get_canon_name(FragAtmosphere \o FragAocTitle \o FragActor)
           = Some(<< "A", "o", "c", "/" >> \o Frag0010 \o FragActor)
    /\ get_canon_name(FragActor \o FragDotS) = None
    /\ get_canon_name_without_root(FragActor \o FragDotS) = FragActor \o << "A", "." >>

(***************************************************************************)
(* Properties of the StockHashTable queries.                               *)
(***************************************************************************)
\* the content begins with the 4-byte marker b"Yaz0"
HasMarker(data) == Len(data) >= 4 /\ SubSeq(data, 1, 4) = Yaz0Magic

IsModdedQuery(c) == req[c].op = "is_file_modded"

KnownQuery(c) == IsModdedQuery(c) /\ req[c].file_name \in DOMAIN table

\* C1: for a path that is not a key of the table, is_file_modded returns
\* exactly flag_new whatever the content is (short, or marked and not
\* decompressible), and the path is reported as not known (is_file_new).
C1_UnknownPathFollowsFlag ==
    \A c \in Callers :
        /\ (IsModdedQuery(c) /\ req[c].file_name \notin DOMAIN table)
               => res[c] = RetBool(req[c].flag_new)
        /\ (req[c].op = "is_file_new" /\ req[c].file_name \notin DOMAIN table)
               => res[c] = RetBool(TRUE)

\* an unknown path queried with marked content that does not decompress
C1_Witness ==
    \E c \in Callers :
        /\ IsModdedQuery(c)
        /\ req[c].file_name \notin DOMAIN table
        /\ req[c].data \in Yaz0Broken
        /\ ~req[c].flag_new
        /\ res[c] = RetBool(FALSE)

\* C2: for a known path and content that begins with the marker and fails
\* to decompress, is_file_modded returns true for either flag.
C2_DecompressFailureIsModified ==
    \A c \in Callers :
        (KnownQuery(c) /\ HasMarker(req[c].data) /\ ~Yaz0Decompress(req[c].data).ok)
            => res[c] = RetBool(TRUE)

\* the bytes that are hashed: the payload of marked content, else the content
BytesToHash(data) == IF HasMarker(data) THEN Yaz0Decompress(data).val ELSE data

\* C3: for a known path whose content has bytes to hash, is_file_modded
\* returns true iff their seed-0 fingerprint is not in the path's list,
\* for either flag.
C3_ModifiedIffFingerprintAbsent ==
    \A c \in Callers :
        (KnownQuery(c) /\ (HasMarker(req[c].data) => Yaz0Decompress(req[c].data).ok))
            => res[c] = RetBool(~VecContains(table[req[c].file_name],
                                             XxHash32(Seed0, BytesToHash(req[c].data))))

\* C4: for a known path and content without the marker, of any length,
\* is_file_modded hashes the content as it is and returns a boolean.
C4_UnmarkedContentHashedAsIs ==
    \A c \in Callers :
        (KnownQuery(c) /\ ~HasMarker(req[c].data))
            => /\ res[c].kind = "bool"
               /\ res[c].val = ~VecContains(table[req[c].file_name],
                                            XxHash32(Seed0, req[c].data))

\* C10: the table of a constructed StockHashTable never changes, and every
\* query of every caller returns what it returns on the table as constructed.
C10_TableNeverMutated ==
    /\ table = get_hash_table(platform)
    /\ order \in KeyOrders(get_hash_table(platform))
    /\ \A c \in Callers :
           req[c] # NoRequest => res[c] = Answer(get_hash_table(platform), order, req[c])

\* two callers hold the verdict of the same query on a known path
C10_Witness ==
    \E c1, c2 \in Callers :
        /\ c1 # c2
        /\ KnownQuery(c1)
        /\ req[c2] = req[c1]
        /\ res[c1] = RetBool(TRUE)
        /\ res[c2] = RetBool(TRUE)

(***************************************************************************)
(* Properties of the canonicalizer.                                        *)
(***************************************************************************)
\* the letter-case spellings of the base-content root
BaseRootSpellings ==
    { FragContent, FragContentTitle, FragContentUpper, FragBaseTitle, FragBaseTitleLower }

\* a remainder that holds no root and no marker text
PlainRemainder(rem) ==
    /\ Len(rem) > 0
    /\ ~re_is_match(normalize(rem))
    /\ ~contains(normalize(rem), StrAocLower)
    /\ ~contains(normalize(rem), StrContent)

\* C5: for every spelling of the base-content root followed by a plain
\* remainder, get_canon_name returns Some(remainder), never an "Aoc/" path.
C5_BaseRootAnyCase ==
    fn = "get_canon_name" =>
        \A root \in BaseRootSpellings :
            (starts_with(raw, root) /\ PlainRemainder(SubSeq(raw, Len(root) + 1, Len(raw))))
                => out[1] = Some(normalize(SubSeq(raw, Len(root) + 1, Len(raw))))

\* every backslash turned into a slash
Slashed(s) == [i \in 1 .. Len(s) |-> IF s[i] = "\\" THEN "/" ELSE s[i]]

RECURSIVE DropAt(_, _, _)
\* s from index i on, without the elements whose index is in drop
DropAt(s, i, drop) ==
    IF i > Len(s) THEN << >>
    ELSE (IF i \in drop THEN << >> ELSE << s[i] >>) \o DropAt(s, i + 1, drop)

\* the indices of every "s" that directly follows a "."
MarkerIndices(s) == { i \in 2 .. Len(s) : s[i] = "s" /\ s[i - 1] = "." }

\* s without every "s" that directly follows a "."
WithoutMarkers(s) == DropAt(s, 1, MarkerIndices(s))

\* s without the first "s" that directly follows a "."
WithoutFirstMarker(s) ==
    DropAt(s, 1, { i \in MarkerIndices(s) : \A j \in MarkerIndices(s) : i <= j })

C7_Idempotent ==
    (fn = "get_canon_name_without_root" /\ Len(out) = 2) => out[2] = out[1]

StrDotSS == << ".", "s", "s" >>

\* C7 amended: the same, for every raw path without ".ss"
C7_IdempotentWithoutDoubleS ==
    (fn = "get_canon_name_without_root" /\ Len(out) = 2 /\ ~contains(raw, StrDotSS))
        => out[2] = out[1]

\* a path with a marker and no ".ss" was canonicalized twice
C7_Witness ==
    /\ fn = "get_canon_name_without_root"
    /\ Len(out) = 2
    /\ contains(raw, StrDotS)
    /\ ~contains(raw, StrDotSS)
    /\ out[1] # raw

\* C8: get_canon_name returns None for a path in which, once normalized,
\* RE matches nowhere and which starts with neither "aoc/" nor "content",
\* and for a path that starts with "content" and contains "/aoc", be it
\* before or after the roots are substituted.
C8_UnrecognizedIsNone ==
    fn = "get_canon_name" =>
        LET n == normalize(raw)
            m == re_replace_all(n)
        IN  /\ (/\ ~re_is_match(n)
                /\ ~starts_with(n, StrAocSlash)
                /\ ~starts_with(n, StrContent)) => out[1] = None
            /\ (starts_with(n, StrContent) /\ contains(n, StrSlashAoc)) => out[1] = None
            /\ (starts_with(m, StrContent) /\ contains(m, StrSlashAoc)) => out[1] = None

\* a path under "content" with an embedded "/aoc" was rejected
C8_Witness ==
    /\ fn = "get_canon_name"
    /\ starts_with(normalize(raw), StrContent)
    /\ contains(normalize(raw), StrSlashAoc)
    /\ out[1] = None

\* C9: get_canon_name rewrites the leading marker only: "content/" is
\* stripped from the front, or the leading "aoc" becomes "Aoc", and the
\* rest of the path is returned as it is.
C9_OnlyLeadingMarkerRewritten ==
    fn = "get_canon_name" =>
        LET m == re_replace_all(normalize(raw))
        IN  /\ starts_with(m, StrAocSlash)
                   => out[1] = Some(StrAocUpper \o SubSeq(m, 4, Len(m)))
            /\ (starts_with(m, StrContentSlash) /\ ~contains(m, StrSlashAoc))
                   => out[1] = Some(SubSeq(m, 9, Len(m)))

====
